---- MODULE Spec2Model ----
(***************************************************************************)
(* Stock dashboard: the stock route handlers (GET /api/stocks/[ticker], in *)
(* three variants), their moving-average helper calculateMA, and the       *)
(* dashboard page that fetches from the route.                             *)
(*                                                                         *)
(* Three specifications share the module:                                  *)
(*   SpecEnrich  the moving-average derivation as a pure function          *)
(*   Spec        requests running through the route handlers               *)
(*   SpecPage    the dashboard page and its fetches                        *)
(***************************************************************************)
EXTENDS Integers, Sequences, FiniteSets, TLC

VARIABLES
    \* ---- SpecEnrich
    series,        \* the price series handed to the derivation
    enriched,      \* the derived series
    phase,         \* "input" | "done"
    \* ---- Spec (route handlers)
    store,         \* contents of stock_prices and stock_summaries
    fault,         \* which table's reads the store currently fails
    epoch,         \* number of changes of the store's condition so far
    pc,            \* per request: position in GET
    variant,       \* per request: which route file serves it
    param,         \* per request: params.ticker
    ticker,        \* per request: the local const ticker
    priceRes,      \* per request: {data: priceData, error: priceError}
    summaryRes,    \* per request: {data: summaryData, error: summaryError}
    response,      \* per request: the response returned
    priceReads,    \* per request: reads issued against stock_prices
    summaryReads,  \* per request: reads issued against stock_summaries
    maRuns,        \* per request: times the moving averages were computed
    readEpoch,     \* per request: <<epoch of price read, epoch of summary read>>
    \* ---- SpecPage (dashboard page)
    pgTicker,      \* useState('AAPL')
    pgData,        \* useState<ApiResponse | null>(null)
    pgLoading,     \* useState(false)
    pgError,       \* useState('')
    effectDue,     \* the [ticker] effect of the last commit has not run yet
    fetches        \* the fetches started so far, in order

enrichVars  == <<series, enriched, phase>>
handlerVars == <<store, fault, epoch, pc, variant, param, ticker, priceRes,
                 summaryRes, response, priceReads, summaryReads, maRuns,
                 readEpoch>>
pageVars    == <<pgTicker, pgData, pgLoading, pgError, effectDue, fetches>>
vars        == <<enrichVars, handlerVars, pageVars>>

----------------------------------------------------------------------------
(* Bounds of the model *)

MaxLen == 52        \* longest price series
MaxEpoch == 1       \* changes of the store's condition
MaxFetch == 4       \* fetches the page starts

----------------------------------------------------------------------------
(* Values *)

\* A JS number that is the quotient of two integers, kept exact in lowest
\* terms; null is the empty tuple.
RECURSIVE Gcd(_, _)
Gcd(a, b) == IF b = 0 THEN a ELSE Gcd(b, a % b)

Quotient(sum, period) ==
    LET g == Gcd(sum, period) IN
    IF g = 0 THEN <<0, 1>> ELSE <<sum \div g, period \div g>>

NullNumber == <<>>

\* Strings are sequences of characters.
\* String.prototype.toUpperCase on one character.
UpperChar(c) ==
    CASE c = "a" -> "A"
      [] c = "p" -> "P"
      [] c = "l" -> "L"
      [] c = "m" -> "M"
      [] c = "s" -> "S"
      [] c = "f" -> "F"
      [] c = "t" -> "T"
      [] OTHER -> c

toUpperCase(s) == [i \in 1..Len(s) |-> UpperChar(s[i])]

AAPL == <<"A", "A", "P", "L">>
MSFT == <<"M", "S", "F", "T">>

\* Ticker strings a request or the page input may carry.
Tickers == {AAPL, <<"a", "a", "p", "L">>, MSFT}

----------------------------------------------------------------------------
(* Price series: rows of stock_prices for one ticker, as the store returns *)
(* them for .order('date', { ascending: true }).                           *)

\* Shapes of the close and volume columns.
Shapes == [base : {2, 100}, mul : {0, 1, 3}]

CloseAt(i, sh)  == sh.base + ((i * sh.mul) % 7)
VolumeAt(i, sh) == 1000 + ((i * sh.mul) % 5) * 10

\* dup = 0: all dates distinct; dup = k > 0: rows k and k+1 carry one date.
DateAt(i, dup) == IF dup > 0 /\ i > dup THEN i - 1 ELSE i

MkSeries(tk, len, sh, dup) ==
    [i \in 1..len |->
        [date   |-> DateAt(i, dup),
         ticker |-> tk,
         open   |-> CloseAt(i, sh),
         high   |-> CloseAt(i, sh) + 1,
         low    |-> CloseAt(i, sh) - 1,
         close  |-> CloseAt(i, sh),
         volume |-> VolumeAt(i, sh)]]

Field(rec, f) == IF f = "volume" THEN rec.volume ELSE rec.close

UniqueDates(S) ==
    \A i, j \in 1..Len(S) : S[i].date = S[j].date => i = j

StrictlyAscending(S) ==
    \A i \in 1..Len(S) - 1 : S[i].date < S[i + 1].date

----------------------------------------------------------------------------
(* calculateMA and the enrichment of a series.  JS arrays are 0-based: the *)
(* element at JS index k of a sequence is data[k + 1].                     *)

Period20 == 20
Period50 == 50
VolumePeriod == 20

\* Array.prototype.findIndex(d => d.date === currentDate): the first index
\* whose date matches, -1 when none does.
findIndex(data, currentDate) ==
    LET hits == {k \in 0..Len(data) - 1 : data[k + 1].date = currentDate}
    IN IF hits = {} THEN -1
       ELSE CHOOSE k \in hits : \A h \in hits : k <= h

\* Array.prototype.slice(start, end) for integer arguments.
slice(data, start, end) ==
    LET n  == Len(data)
        lo == IF start < 0 THEN (IF n + start < 0 THEN 0 ELSE n + start)
              ELSE (IF start > n THEN n ELSE start)
        hi == IF end < 0 THEN (IF n + end < 0 THEN 0 ELSE n + end)
              ELSE (IF end > n THEN n ELSE end)
    IN IF hi <= lo THEN <<>>
       ELSE [k \in 1..(hi - lo) |-> data[lo + k]]

\* slice.reduce((acc, curr) => acc + curr[field], 0)
RECURSIVE reduceSum(_, _, _)
reduceSum(sl, field, acc) ==
    IF sl = <<>> THEN acc
    ELSE reduceSum(Tail(sl), field, acc + Field(Head(sl), field))

\* A slip in the boundary test: <= where the code has <.
calculateMA_lateStart(data, currentDate, period, field) ==
    LET currentIndex == findIndex(data, currentDate) IN
    IF currentIndex <= period - 1 THEN NullNumber
    ELSE Quotient(reduceSum(slice(data, currentIndex - period + 1,
                                  currentIndex + 1), field, 0), period)

calculateMA(data, currentDate, period, field) ==
    LET currentIndex == findIndex(data, currentDate) IN
    IF currentIndex < period - 1 THEN NullNumber
    ELSE Quotient(reduceSum(slice(data, currentIndex - period + 1,
                                  currentIndex + 1), field, 0), period)

\* d => ({...d, MA20: ..., MA50: ..., avg_20day_volume: ...})
EnrichRecord(priceData, d) ==
    [date   |-> d.date,
     ticker |-> d.ticker,
     open   |-> d.open,
     high   |-> d.high,
     low    |-> d.low,
     close  |-> d.close,
     volume |-> d.volume,
     MA20   |-> calculateMA(priceData, d.date, Period20, "close"),
     MA50   |-> calculateMA(priceData, d.date, Period50, "close"),
     avg_20day_volume |-> calculateMA(priceData, d.date, VolumePeriod, "volume")]

\* A slip in the map: the records that have no 20-day average yet are left out.
Enrich_dropIncomplete(priceData) ==
    LET all == [k \in 1..Len(priceData) |-> EnrichRecord(priceData, priceData[k])]
    IN SelectSeq(all, LAMBDA e : e.MA20 # NullNumber)

\* priceData.map(d => ...)
Enrich(priceData) ==
    [k \in 1..Len(priceData) |-> EnrichRecord(priceData, priceData[k])]

----------------------------------------------------------------------------
(* The store: the tables stock_prices and stock_summaries, and the two     *)
(* queries the handlers run against them.                                  *)

\* A JS value that may be null.
JsNull == [null |-> TRUE, value |-> <<>>]
JsValue(x) == [null |-> FALSE, value |-> x]

Reverse(s) == [i \in 1..Len(s) |-> s[Len(s) + 1 - i]]

\* .eq('ticker', key): the rows whose ticker column equals key.
SelectEq(rows, key) == SelectSeq(rows, LAMBDA r : r.ticker = key)

\* .order('date', { ascending: true }): a stable insertion sort by date.
RECURSIVE InsertByDate(_, _)
InsertByDate(sorted, row) ==
    IF sorted = <<>> THEN <<row>>
    ELSE IF Head(sorted).date <= row.date
         THEN <<Head(sorted)>> \o InsertByDate(Tail(sorted), row)
         ELSE <<row>> \o sorted

RECURSIVE OrderByDate(_)
OrderByDate(rows) ==
    IF rows = <<>> THEN <<>>
    ELSE InsertByDate(OrderByDate(SubSeq(rows, 1, Len(rows) - 1)),
                      rows[Len(rows)])

Faults == {"none", "prices", "summaries"}

\* supabase.from('stock_prices').select('*').eq('ticker', t).order('date', ...)
\* resolves to {data, error}: the matching rows in date order (possibly
\* none), or an error with null data.
FetchPriceSeries(st, flt, key) ==
    IF flt = "prices" THEN [data |-> JsNull, error |-> TRUE]
    ELSE [data  |-> JsValue(OrderByDate(SelectEq(st.stock_prices, key))),
          error |-> FALSE]

\* supabase.from('stock_summaries').select('*').eq('ticker', t).single()
\* resolves to the one matching row, or to an error with null data when
\* the read fails or the rows matched are not exactly one.
FetchSummary(st, flt, key) ==
    LET rows == SelectEq(st.stock_summaries, key) IN
    IF flt = "summaries" \/ Len(rows) # 1
    THEN [data |-> JsNull, error |-> TRUE]
    ELSE [data |-> JsValue(rows[1]), error |-> FALSE]

SummaryRow(tk, n) == [ticker |-> tk, latest_price |-> 100 + n]

HandlerShape == [base |-> 100, mul |-> 3]

\* The price series the store may hold for AAPL: none, exactly one 20-day
\* window, one row more whose date repeats that of the row before it, and
\* one longer than the 50-day window.
StoredSeries ==
    {MkSeries(AAPL, 0, HandlerShape, 0),
     MkSeries(AAPL, Period20, HandlerShape, 0),
     MkSeries(AAPL, Period20 + 1, HandlerShape, Period20),
     MkSeries(AAPL, MaxLen - 1, HandlerShape, 0)}

\* Rows are kept newest first; MSFT has two price rows and one summary row.
StoreOf(S, nSummary) ==
    [stock_prices    |-> Reverse(S) \o Reverse(MkSeries(MSFT, 2, HandlerShape, 0)),
     stock_summaries |-> [n \in 1..nSummary |-> SummaryRow(AAPL, n)]
                         \o <<SummaryRow(MSFT, 0)>>]

Stores == {StoreOf(S, n) : S \in StoredSeries, n \in 0..2}

----------------------------------------------------------------------------
(* GET: the route handler, in its three variants.                          *)
(*   "A"  src/app/api/stocks/[ticker]/route.ts                             *)
(*   "B"  the first handler of unnamed/part_000 (lines 33-87)              *)
(*   "C"  the second handler of unnamed/part_000 (lines 131-180)           *)
(* A handler runs from one await to the next without interleaving.         *)

Variants == {"A", "B", "C"}

\* Two requests: the properties checked speak of one request or compare
\* two, and a handler shares nothing with another but the store it reads.
Requests == {1, 2}

\* const ticker = params.ticker.toUpperCase();   ("B": const { ticker } = params;)
NormalizeTicker(v, t) == IF v = "B" THEN t ELSE toUpperCase(t)

\* A slip: the price error is not rethrown.
PriceThrows_never(v, res) == FALSE

\* if (priceError) throw priceError;
\* if (!priceData) throw new Error('No price data found');   ("B", "C")
PriceThrows(v, res) == res.error \/ (v # "A" /\ res.data.null)

\* A slip: the summary error is not rethrown.
SummaryThrows_nullOnly(v, res) == v # "A" /\ res.data.null

\* if (summaryError) throw summaryError;
\* if (!summaryData) throw new Error('No summary data found');   ("B", "C")
SummaryThrows(v, res) == res.error \/ (v # "A" /\ res.data.null)

\* priceData.map(...) on null throws a TypeError.
MapThrows(res) == res.data.null

\* A slip: the volume view is built newest first.
SuccessResponse_reversedVolume(prices, summaryData) ==
    [status |-> 200,
     body   |-> [data    |-> [price_data |-> prices, volume_data |-> Reverse(prices)],
                 summary |-> summaryData]]

SuccessResponse(prices, summaryData) ==
    [status |-> 200,
     body   |-> [data    |-> [price_data |-> prices, volume_data |-> prices],
                 summary |-> summaryData]]

ErrorResponse ==
    [status |-> 500, body |-> [error |-> "Failed to fetch stock data"]]

NoResponse == [status |-> 0, body |-> [none |-> TRUE]]
NoResult   == [data |-> JsNull, error |-> FALSE]

\* A request arrives and runs to the first await: the price read is issued.
\* Requests are numbered in the order they arrive.
Start(r, v, t) ==
    /\ pc[r] = "idle"
    /\ IF r = 1 THEN TRUE ELSE pc[r - 1] # "idle"
    /\ variant' = [variant EXCEPT ![r] = v]
    /\ param' = [param EXCEPT ![r] = t]
    /\ ticker' = [ticker EXCEPT ![r] = NormalizeTicker(v, t)]
    /\ priceReads' = [priceReads EXCEPT ![r] = @ + 1]
    /\ pc' = [pc EXCEPT ![r] = "awaitPrice"]
    /\ UNCHANGED <<store, fault, epoch, priceRes, summaryRes, response,
                   summaryReads, maRuns, readEpoch>>
    /\ UNCHANGED <<enrichVars, pageVars>>

\* A slip: a failed price read is issued again.
PriceResolved_retry(r) ==
    /\ pc[r] = "awaitPrice"
    /\ LET res == FetchPriceSeries(store, fault, ticker[r]) IN
       /\ priceRes' = [priceRes EXCEPT ![r] = res]
       /\ readEpoch' = [readEpoch EXCEPT ![r][1] = epoch]
       /\ IF PriceThrows(variant[r], res)
          THEN /\ priceReads[r] < 2
               /\ priceReads' = [priceReads EXCEPT ![r] = @ + 1]
               /\ UNCHANGED <<pc, response, summaryReads>>
          ELSE /\ summaryReads' = [summaryReads EXCEPT ![r] = @ + 1]
               /\ pc' = [pc EXCEPT ![r] = "awaitSummary"]
               /\ UNCHANGED <<response, priceReads>>
    /\ UNCHANGED <<store, fault, epoch, variant, param, ticker, summaryRes,
                   maRuns>>
    /\ UNCHANGED <<enrichVars, pageVars>>

\* The price read resolves; the handler runs to the second await or to the
\* catch block.
PriceResolved(r) ==
    /\ pc[r] = "awaitPrice"
    /\ LET res == FetchPriceSeries(store, fault, ticker[r]) IN
       /\ priceRes' = [priceRes EXCEPT ![r] = res]
       /\ readEpoch' = [readEpoch EXCEPT ![r][1] = epoch]
       /\ IF PriceThrows(variant[r], res)
          THEN /\ response' = [response EXCEPT ![r] = ErrorResponse]
               /\ pc' = [pc EXCEPT ![r] = "done"]
               /\ UNCHANGED summaryReads
          ELSE /\ summaryReads' = [summaryReads EXCEPT ![r] = @ + 1]
               /\ pc' = [pc EXCEPT ![r] = "awaitSummary"]
               /\ UNCHANGED response
    /\ UNCHANGED <<store, fault, epoch, variant, param, ticker, summaryRes,
                   priceReads, maRuns>>
    /\ UNCHANGED <<enrichVars, pageVars>>

\* The summary read resolves; the handler computes the moving averages and
\* returns the payload, or reaches the catch block.
SummaryResolved(r) ==
    /\ pc[r] = "awaitSummary"
    /\ LET res == FetchSummary(store, fault, ticker[r]) IN
       /\ summaryRes' = [summaryRes EXCEPT ![r] = res]
       /\ readEpoch' = [readEpoch EXCEPT ![r][2] = epoch]
       /\ IF SummaryThrows(variant[r], res) \/ MapThrows(priceRes[r])
          THEN /\ response' = [response EXCEPT ![r] = ErrorResponse]
               /\ UNCHANGED maRuns
          ELSE /\ response' = [response EXCEPT ![r] =
                      SuccessResponse(Enrich(priceRes[r].data.value), res.data)]
               /\ maRuns' = [maRuns EXCEPT ![r] = @ + 1]
    /\ pc' = [pc EXCEPT ![r] = "done"]
    /\ UNCHANGED <<store, fault, epoch, variant, param, ticker, priceRes,
                   priceReads, summaryReads>>
    /\ UNCHANGED <<enrichVars, pageVars>>

\* The store's condition changes: an outage of one table begins or ends.
FaultChange ==
    /\ epoch < MaxEpoch
    /\ \E f \in Faults \ {fault} : fault' = f
    /\ epoch' = epoch + 1
    /\ UNCHANGED <<store, pc, variant, param, ticker, priceRes, summaryRes,
                   response, priceReads, summaryReads, maRuns, readEpoch>>
    /\ UNCHANGED <<enrichVars, pageVars>>

----------------------------------------------------------------------------
(* Home: the dashboard page.  Each fetch is tagged with the symbol it was  *)
(* started for; the payload of a successful fetch is identified by it.     *)

DefaultTickers == {AAPL, MSFT}

\* fetchStockData(symbol) up to its await: setLoading(true); setError('');
\* fetch(`/api/stocks/${symbol}`)
StartFetch(fs, symbol) == Append(fs, [symbol |-> symbol, state |-> "inflight"])

InFlight == {i \in 1..Len(fetches) : fetches[i].state = "inflight"}

\* useEffect(() => { fetchStockData(ticker) }, [ticker]) after the first
\* commit: the effect runs once the page has been painted.
RunEffect ==
    /\ effectDue
    /\ Len(fetches) < MaxFetch
    /\ fetches' = StartFetch(fetches, pgTicker)
    /\ pgLoading' = TRUE
    /\ pgError' = ""
    /\ effectDue' = FALSE
    /\ UNCHANGED <<pgTicker, pgData>>
    /\ UNCHANGED <<enrichVars, handlerVars>>

\* setTicker(t) from an event handler.  The controls exist only while the
\* page is not showing the spinner (if (loading) return ...).  An effect
\* still pending from the previous commit runs first, with the ticker of
\* that commit; the effect of this update runs with the event.
SetTicker(t) ==
    /\ ~pgLoading
    /\ t # pgTicker
    /\ LET flushed == IF effectDue THEN StartFetch(fetches, pgTicker)
                      ELSE fetches
       IN /\ Len(flushed) < MaxFetch
          /\ fetches' = StartFetch(flushed, t)
    /\ pgTicker' = t
    /\ pgLoading' = TRUE
    /\ pgError' = ""
    /\ effectDue' = FALSE
    /\ UNCHANGED pgData
    /\ UNCHANGED <<enrichVars, handlerVars>>

\* onClick={() => setTicker(t)} of a default ticker's button
ClickTicker(t) == SetTicker(t)

\* onChange={(e) => setTicker(e.target.value.toUpperCase())}
ChangeInput(v) == SetTicker(toUpperCase(v))

\* response.ok: setData(data); finally setLoading(false)
FetchOk(i) ==
    /\ i \in InFlight
    /\ fetches' = [fetches EXCEPT ![i].state = "ok"]
    /\ pgData' = JsValue([symbol |-> fetches[i].symbol])
    /\ pgLoading' = FALSE
    /\ UNCHANGED <<pgTicker, pgError, effectDue>>
    /\ UNCHANGED <<enrichVars, handlerVars>>

\* !response.ok or a rejected fetch: setError(...); finally setLoading(false)
FetchFail(i) ==
    /\ i \in InFlight
    /\ fetches' = [fetches EXCEPT ![i].state = "failed"]
    /\ pgError' = "Failed to fetch data"
    /\ pgLoading' = FALSE
    /\ UNCHANGED <<pgTicker, pgData, effectDue>>
    /\ UNCHANGED <<enrichVars, handlerVars>>

----------------------------------------------------------------------------
(* The derivation as a pure function of a series *)

DupChoices(len) == {d \in {0, 1, Period20 - 1, Period20, Period50 - 1} : d < len}

AllSeries ==
    {MkSeries(AAPL, len, sh, dup) :
        <<len, sh, dup>> \in {x \in (0..MaxLen) \X Shapes \X (0..Period50) :
                                x[3] \in DupChoices(x[1])}}

RunEnrich ==
    /\ phase = "input"
    /\ enriched' = Enrich(series)
    /\ phase' = "done"
    /\ UNCHANGED series
    /\ UNCHANGED <<handlerVars, pageVars>>

----------------------------------------------------------------------------
(* Specifications *)

\* The part of the state a specification does not use stays as constructed.
Idle(st, flt) ==
    /\ store = st
    /\ fault = flt
    /\ epoch = 0
    /\ pc = [r \in Requests |-> "idle"]
    /\ variant = [r \in Requests |-> "A"]
    /\ param = [r \in Requests |-> <<>>]
    /\ ticker = [r \in Requests |-> <<>>]
    /\ priceRes = [r \in Requests |-> NoResult]
    /\ summaryRes = [r \in Requests |-> NoResult]
    /\ response = [r \in Requests |-> NoResponse]
    /\ priceReads = [r \in Requests |-> 0]
    /\ summaryReads = [r \in Requests |-> 0]
    /\ maRuns = [r \in Requests |-> 0]
    /\ readEpoch = [r \in Requests |-> <<-1, -1>>]

Unmounted ==
    /\ pgTicker = AAPL
    /\ pgData = JsNull
    /\ pgLoading = FALSE
    /\ pgError = ""
    /\ fetches = <<>>

InitEnrich ==
    /\ Idle(StoreOf(<<>>, 0), "none")
    /\ Unmounted /\ effectDue = FALSE
    /\ series \in AllSeries
    /\ enriched = <<>>
    /\ phase = "input"

InitHandler ==
    /\ series = <<>> /\ enriched = <<>> /\ phase = "done"
    /\ Unmounted /\ effectDue = FALSE
    /\ \E st \in Stores : Idle(st, "none")

InitPage ==
    /\ series = <<>> /\ enriched = <<>> /\ phase = "done"
    /\ Idle(StoreOf(<<>>, 0), "none")
    /\ Unmounted /\ effectDue = TRUE

NextEnrich == RunEnrich

NextHandler ==
    \/ \E r \in Requests, v \in Variants, t \in Tickers : Start(r, v, t)
    \/ \E r \in Requests : PriceResolved(r)
    \/ \E r \in Requests : SummaryResolved(r)
    \/ FaultChange

NextPage ==
    \/ RunEffect
    \/ \E t \in DefaultTickers : ClickTicker(t)
    \/ \E v \in Tickers : ChangeInput(v)
    \/ \E i \in 1..MaxFetch : FetchOk(i)
    \/ \E i \in 1..MaxFetch : FetchFail(i)

SpecEnrich == InitEnrich /\ [][NextEnrich]_vars
Spec       == InitHandler /\ [][NextHandler]_vars
SpecPage   == InitPage /\ [][NextPage]_vars

----------------------------------------------------------------------------
(* Properties *)

Done(r) == pc[r] = "done"
Ok(r)   == Done(r) /\ response[r].status = 200

\* The rows a request fetched (only where the price read returned data).
Fetched(r) == priceRes[r].data.value

\* The sum of a field over the 0-based positions lo..hi of S.
RECURSIVE SumOver(_, _, _, _)
SumOver(S, lo, hi, f) ==
    IF lo > hi THEN 0
    ELSE Field(S[hi + 1], f) + SumOver(S, lo, hi - 1, f)

\* The trailing mean of w samples ending at 0-based position i, null before
\* a full window exists.
TrailingMean(S, i, w, f) ==
    IF i < w - 1 THEN NullNumber
    ELSE Quotient(SumOver(S, i - w + 1, i, f), w)

\* C1: for a series with unique dates, each derived field of the record at
\* position i is null when i < w - 1 and otherwise the sum of the field over
\* positions i-w+1 .. i divided by w, for (20, close), (50, close) and
\* (20, volume); the empty series gives the empty output.
C1_MovingAverageContract ==
    (phase = "done" /\ UniqueDates(series)) =>
        /\ Len(enriched) = Len(series)
        /\ \A i \in 0..Len(series) - 1 :
              /\ enriched[i + 1].MA20 = TrailingMean(series, i, 20, "close")
              /\ enriched[i + 1].MA50 = TrailingMean(series, i, 50, "close")
              /\ enriched[i + 1].avg_20day_volume
                     = TrailingMean(series, i, 20, "volume")
              /\ i < 19 => enriched[i + 1].MA20 = NullNumber
              /\ i < 49 => enriched[i + 1].MA50 = NullNumber

\* A series with unique dates and varying closes, long enough for both
\* windows, has been enriched: the last window-less records are null and the
\* first full windows are not.
C1_Witness ==
    /\ phase = "done"
    /\ UniqueDates(series)
    /\ Len(series) >= 50
    /\ series[1].close # series[2].close
    /\ enriched[19].MA20 = NullNumber
    /\ enriched[20].MA20 # NullNumber
    /\ enriched[20].avg_20day_volume # NullNumber
    /\ enriched[49].MA50 = NullNumber
    /\ enriched[50].MA50 # NullNumber

\* C2: a request whose price read succeeds with zero rows ends with the 500
\* error payload, never with a 200 payload of empty arrays.
C2_EmptySeriesRejected ==
    \A r \in Requests :
        (Done(r) /\ ~priceRes[r].error /\ ~priceRes[r].data.null
                 /\ Fetched(r) = <<>>)
            => response[r] = ErrorResponse

\* C3: in every variant both reads use the uppercase form of params.ticker,
\* so two requests of one variant whose tickers differ only in case, served
\* by the store in the same condition, get the same response.
C3_CaseInsensitiveLookup ==
    /\ \A r \in Requests :
          pc[r] # "idle" => ticker[r] = toUpperCase(param[r])
    /\ \A r1, r2 \in Requests :
          (/\ Done(r1) /\ Done(r2)
           /\ variant[r1] = variant[r2]
           /\ toUpperCase(param[r1]) = toUpperCase(param[r2])
           /\ readEpoch[r1] = readEpoch[r2])
              => response[r1] = response[r2]

\* C4: a request whose fetched series is not strictly ascending by date (two
\* records share a date) ends with the 500 error payload.
C4_UnsortedSeriesRejected ==
    \A r \in Requests :
        (Done(r) /\ ~priceRes[r].error /\ ~priceRes[r].data.null
                 /\ ~StrictlyAscending(Fetched(r)))
            => response[r] = ErrorResponse

\* C5: a request has no response until it ends, and then exactly one of two:
\* the 200 payload with the enriched series and a non-null summary, or the
\* fixed 500 error payload; the latter whenever the price read or the summary
\* read reported an error or no summary row matches the ticker.
C5_OneOfTwoResponses ==
    \A r \in Requests :
        /\ ~Done(r) => response[r] = NoResponse
        /\ Done(r) =>
              \/ response[r] = ErrorResponse
              \/ /\ response[r].status = 200
                 /\ ~response[r].body.summary.null
                 /\ ~priceRes[r].data.null
                 /\ Len(response[r].body.data.price_data) = Len(Fetched(r))
        /\ (Done(r) /\ (\/ priceRes[r].error
                        \/ summaryRes[r].error
                        \/ SelectEq(store.stock_summaries, ticker[r]) = <<>>))
              => response[r] = ErrorResponse

\* One request got the payload and the other, its price read having
\* succeeded, failed on the summary read.
C5_Witness ==
    \E r1, r2 \in Requests :
        /\ Ok(r1)
        /\ Done(r2) /\ response[r2] = ErrorResponse
        /\ ~priceRes[r2].error /\ summaryRes[r2].error

\* C6: in a successful response the enriched series has the length of the
\* fetched series and each record keeps the date, ticker, open, high, low,
\* close and volume of the fetched record at its position.
C6_EnrichmentPreservesRecords ==
    \A r \in Requests :
        Ok(r) =>
            LET S == Fetched(r)
                E == response[r].body.data.price_data
            IN /\ Len(E) = Len(S)
               /\ \A i \in 1..Len(S) :
                     /\ E[i].date = S[i].date
                     /\ E[i].ticker = S[i].ticker
                     /\ E[i].open = S[i].open
                     /\ E[i].high = S[i].high
                     /\ E[i].low = S[i].low
                     /\ E[i].close = S[i].close
                     /\ E[i].volume = S[i].volume

\* A successful response over a full window: some records carry no average
\* and one does.
C6_Witness ==
    \E r \in Requests :
        /\ Ok(r)
        /\ Len(Fetched(r)) >= 20
        /\ response[r].body.data.price_data[1].MA20 = NullNumber
        /\ response[r].body.data.price_data[20].MA20 # NullNumber

\* C7: in a successful response price_data and volume_data are the same
\* sequence, and summary is the row the store holds for the ticker.
C7_SameViewsAndSummary ==
    \A r \in Requests :
        Ok(r) =>
            /\ response[r].body.data.price_data
                   = response[r].body.data.volume_data
            /\ response[r].body.summary = summaryRes[r].data
            /\ SelectEq(store.stock_summaries, ticker[r])
                   = <<response[r].body.summary.value>>

\* A successful response whose series has several distinct records.
C7_Witness ==
    \E r \in Requests :
        /\ Ok(r)
        /\ Len(response[r].body.data.volume_data) >= 2
        /\ response[r].body.data.volume_data[1]
               # response[r].body.data.volume_data[2]

\* At most one read of each table per request, and equal responses for two
\* requests of one variant and ticker served by the store in the same
\* condition.
C8_State ==
    /\ \A r \in Requests : priceReads[r] <= 1 /\ summaryReads[r] <= 1
    /\ \A r1, r2 \in Requests :
          (/\ Done(r1) /\ Done(r2)
           /\ variant[r1] = variant[r2]
           /\ param[r1] = param[r2]
           /\ readEpoch[r1] = readEpoch[r2])
              => response[r1] = response[r2]

\* C8: a request issues at most one price read and one summary read, none
\* again after a failure; no step changes the store's contents; requests for
\* the same ticker against the unchanged store get the same response.
C8_ReadOnlyAtMostOnce == [](C8_State) /\ [][store' = store]_vars

\* Two requests of one variant for one ticker, each with one read of each
\* table served by the store in the same condition, both ended with the
\* payload.
C8_Witness ==
    /\ Ok(1) /\ Ok(2)
    /\ variant[1] = variant[2]
    /\ param[1] = param[2]
    /\ readEpoch[1] = readEpoch[2]
    /\ priceReads[1] = 1 /\ summaryReads[2] = 1

\* C9: once no fetch is in flight and the fetch for the selected ticker (the
\* last one started) succeeded, the data shown is that fetch's response.
C9_ShowsSelectedTicker ==
    (/\ ~effectDue
     /\ fetches # <<>>
     /\ InFlight = {}
     /\ fetches[Len(fetches)].state = "ok")
        => pgData = JsValue([symbol |-> pgTicker])

\* C10: the summary read is issued only after the price read completed
\* without error; after a price error no summary read is issued and the
\* request ends at once with the 500 payload; the moving averages are
\* computed only after both reads succeeded.
C10_ReadsInOrder ==
    \A r \in Requests :
        /\ summaryReads[r] > 0 =>
              /\ readEpoch[r][1] >= 0
              /\ ~priceRes[r].error
              /\ pc[r] \in {"awaitSummary", "done"}
        /\ priceRes[r].error =>
              /\ summaryReads[r] = 0
              /\ readEpoch[r][2] < 0
              /\ Done(r) /\ response[r] = ErrorResponse
        /\ maRuns[r] > 0 =>
              /\ readEpoch[r][1] >= 0 /\ readEpoch[r][2] >= 0
              /\ ~priceRes[r].error /\ ~summaryRes[r].error
              /\ Done(r)
        /\ pc[r] = "awaitSummary" => maRuns[r] = 0

\* One request ended on a price error without a summary read while the
\* other went through both reads and computed the averages.
C10_Witness ==
    \E r1, r2 \in Requests :
        /\ Done(r1) /\ priceRes[r1].error /\ summaryReads[r1] = 0
        /\ Done(r2) /\ maRuns[r2] = 1 /\ summaryReads[r2] = 1

====
